---- MODULE Spec2Model ----
(***************************************************************************)
(* Model of tamil_diacritic_app.py: the transliteration tables, the script *)
(* composer tamil_to_diacritic_roman, the substitution functions           *)
(* replace_preserve_case / apply_roman_mappings / apply_custom_mappings,   *)
(* and the handlers of TamilDiacriticApp (convert_now, _load_mappings,     *)
(* _save_mappings, the custom-mappings editor).                            *)
(*                                                                         *)
(* A text is a sequence of codepoints.  The module is ASCII, so every      *)
(* codepoint is written as a token: "C_ka" is the Tamil letter KA,         *)
(* "S_aa" the vowel sign AA, "a_mac" the Latin a with macron, "n_ul" the   *)
(* Latin n with line below, and so on.  One token is one codepoint, so     *)
(* 'sh' is <<"s","h">> and 'ai' is <<"a","i">>.                            *)
(***************************************************************************)
EXTENDS Integers, Sequences, FiniteSets, TLC

VARIABLES
    pc,             \* a pure function called on its own: "args" | "done"; "ui" in the app
    args,           \* arguments of that call
    ret,            \* its return value
    input_box,      \* content of the input Text widget
    output_box,     \* content of the output Text widget
    status,         \* text of the status bar
    input_mode,     \* "Tamil" | "Roman"
    use_sanskrit,   \* BooleanVar of the Grantha checkbox
    debug_mode,     \* BooleanVar of the debug checkbox
    custom_rules,   \* self.custom_rules, whatever json.load returned
    mappings_file,  \* state of mappings.json on disk
    dialogs,        \* the Toplevel editor windows and the rows of their Treeview
    errorbox,       \* last messagebox.showerror: "none" | "Error" | "Save error"
    log,            \* last line appended to app_debug.log, n the length it reports
    callback_exc    \* an exception escaped a Tk callback (reported by Tk, not caught)

vars == <<pc, args, ret, input_box, output_box, status, input_mode, use_sanskrit,
          debug_mode, custom_rules, mappings_file, dialogs, errorbox, log,
          callback_exc>>

----------------------------------------------------------------------------
(* Transliteration data *)

TAMIL_INDEPENDENT_VOWELS ==
    ("V_a" :> <<"a">>) @@ ("V_aa" :> <<"a_mac">>) @@ ("V_i" :> <<"i">>) @@
    ("V_ii" :> <<"i_mac">>) @@ ("V_u" :> <<"u">>) @@ ("V_uu" :> <<"u_mac">>) @@
    ("V_e" :> <<"e">>) @@ ("V_ee" :> <<"e_mac">>) @@ ("V_ai" :> <<"a", "i">>) @@
    ("V_o" :> <<"o">>) @@ ("V_oo" :> <<"o_mac">>) @@ ("V_au" :> <<"a", "u">>)

TAMIL_VOWEL_SIGNS ==
    ("S_aa" :> <<"a_mac">>) @@ ("S_i" :> <<"i">>) @@ ("S_ii" :> <<"i_mac">>) @@
    ("S_u" :> <<"u">>) @@ ("S_uu" :> <<"u_mac">>) @@ ("S_e" :> <<"e">>) @@
    ("S_ee" :> <<"e_mac">>) @@ ("S_ai" :> <<"a", "i">>) @@ ("S_o" :> <<"o">>) @@
    ("S_oo" :> <<"o_mac">>) @@ ("S_au" :> <<"a", "u">>)

TAMIL_VIRAMA == "VIRAMA"
TAMIL_ANUSVARA == "ANUSVARA"
TAMIL_AAYTHAM == "AAYTHAM"

PUNCT_MAP ==
    ("DANDA" :> <<".">>) @@ ("DOUBLE_DANDA" :> <<".">>) @@
    ("ZWNJ" :> <<>>) @@ ("ZWJ" :> <<>>)

TAMIL_CONSONANTS_CORE ==
    ("C_ka" :> <<"k">>) @@ ("C_nga" :> <<"n_dotabove">>) @@ ("C_ca" :> <<"c">>) @@
    ("C_nya" :> <<"n_tilde">>) @@ ("C_tta" :> <<"t_dot">>) @@
    ("C_nna" :> <<"n_dot">>) @@ ("C_ta" :> <<"t">>) @@ ("C_na" :> <<"n">>) @@
    ("C_nnna" :> <<"n_ul">>) @@ ("C_pa" :> <<"p">>) @@ ("C_ma" :> <<"m">>) @@
    ("C_ya" :> <<"y">>) @@ ("C_ra" :> <<"r">>) @@ ("C_rra" :> <<"r_ul">>) @@
    ("C_la" :> <<"l">>) @@ ("C_lla" :> <<"l_dot">>) @@ ("C_llla" :> <<"l_ul">>) @@
    ("C_va" :> <<"v">>)

(* The keys that build_consonant_map sets on top of the core table. *)
GRANTHA_KEYS == {"C_ja", "C_ssa", "C_sa", "C_ha", "C_sha"}

build_consonant_map_ssa_alike(sanskrit) ==
    IF sanskrit
    THEN ("C_ja" :> <<"j">>) @@ ("C_ssa" :> <<"s_dot">>) @@ ("C_sa" :> <<"s">>) @@
         ("C_ha" :> <<"h">>) @@ ("C_sha" :> <<"s_acute">>) @@ TAMIL_CONSONANTS_CORE
    ELSE ("C_ja" :> <<"j">>) @@ ("C_ssa" :> <<"s_dot">>) @@ ("C_sa" :> <<"s">>) @@
         ("C_ha" :> <<"h">>) @@ ("C_sha" :> <<"s">>) @@ TAMIL_CONSONANTS_CORE

build_consonant_map(sanskrit) ==
    IF sanskrit
    THEN ("C_ja" :> <<"j">>) @@ ("C_ssa" :> <<"s_dot">>) @@ ("C_sa" :> <<"s">>) @@
         ("C_ha" :> <<"h">>) @@ ("C_sha" :> <<"s_acute">>) @@ TAMIL_CONSONANTS_CORE
    ELSE ("C_ja" :> <<"j">>) @@ ("C_ssa" :> <<"s", "h">>) @@ ("C_sa" :> <<"s">>) @@
         ("C_ha" :> <<"h">>) @@ ("C_sha" :> <<"s">>) @@ TAMIL_CONSONANTS_CORE

(* Lines 97-104: a consonant with base romanization `base`, `nxt` the next  *)
(* codepoint or "" at the end of the text: what is emitted, and how far i   *)
(* advances.                                                                *)
consonant_step_skips_one(base, nxt) ==
    IF nxt = TAMIL_VIRAMA THEN [out |-> base, adv |-> 1]
    ELSE IF nxt \in DOMAIN TAMIL_VOWEL_SIGNS
    THEN [out |-> base \o TAMIL_VOWEL_SIGNS[nxt], adv |-> 1]
    ELSE [out |-> base \o <<"a">>, adv |-> 1]

consonant_step(base, nxt) ==
    IF nxt = TAMIL_VIRAMA THEN [out |-> base, adv |-> 2]
    ELSE IF nxt \in DOMAIN TAMIL_VOWEL_SIGNS
    THEN [out |-> base \o TAMIL_VOWEL_SIGNS[nxt], adv |-> 2]
    ELSE [out |-> base \o <<"a">>, adv |-> 1]

(* Line 106: whitespace or other scripts are kept as they are. *)
other_step_drops_marks(ch) ==
    IF ch = TAMIL_VIRAMA \/ ch \in DOMAIN TAMIL_VOWEL_SIGNS
    THEN [out |-> <<>>, adv |-> 1]
    ELSE [out |-> <<ch>>, adv |-> 1]

other_step(ch) == [out |-> <<ch>>, adv |-> 1]

(* One iteration of the while loop at index i (1-based, i <= Len(text)). *)
scan_step(text, i, cmap) ==
    LET ch == text[i] IN
    IF ch \in DOMAIN PUNCT_MAP THEN [out |-> PUNCT_MAP[ch], adv |-> 1]
    ELSE IF ch = TAMIL_ANUSVARA THEN [out |-> <<"m_dot">>, adv |-> 1]
    ELSE IF ch = TAMIL_AAYTHAM THEN [out |-> <<"h_dot">>, adv |-> 1]
    ELSE IF ch \in DOMAIN TAMIL_INDEPENDENT_VOWELS
    THEN [out |-> TAMIL_INDEPENDENT_VOWELS[ch], adv |-> 1]
    ELSE IF ch \in DOMAIN cmap
    THEN consonant_step(cmap[ch], IF i + 1 <= Len(text) THEN text[i + 1] ELSE "")
    ELSE other_step(ch)

(* The while loop of tamil_to_diacritic_roman from index i, and the join. *)
RECURSIVE scan_from(_, _, _)
scan_from(text, i, cmap) ==
    IF i > Len(text) THEN <<>>
    ELSE LET st == scan_step(text, i, cmap)
         IN  st.out \o scan_from(text, i + st.adv, cmap)

tamil_to_diacritic_roman(text, sanskrit) ==
    scan_from(text, 1, build_consonant_map(sanskrit))

----------------------------------------------------------------------------
(* Python's str methods, on the characters the model uses *)

LOWER_TO_UPPER ==
    ("a" :> "A") @@ ("b" :> "B") @@ ("c" :> "C") @@ ("e" :> "E") @@ ("g" :> "G") @@
    ("h" :> "H") @@ ("i" :> "I") @@ ("l" :> "L") @@ ("m" :> "M") @@ ("n" :> "N") @@
    ("o" :> "O") @@ ("r" :> "R") @@ ("s" :> "S") @@ ("t" :> "T") @@ ("u" :> "U") @@
    ("z" :> "Z") @@ ("k" :> "K") @@
    ("a_mac" :> "A_mac") @@ ("i_mac" :> "I_mac") @@ ("u_mac" :> "U_mac") @@
    ("e_mac" :> "E_mac") @@ ("o_mac" :> "O_mac") @@ ("l_ul" :> "L_ul") @@
    ("n_dotabove" :> "N_dotabove") @@ ("n_dot" :> "N_dot") @@ ("t_dot" :> "T_dot") @@
    ("l_dot" :> "L_dot") @@ ("r_dot" :> "R_dot") @@ ("m_dot" :> "M_dot") @@
    ("s_acute" :> "S_acute")

UPPERS == {LOWER_TO_UPPER[c] : c \in DOMAIN LOWER_TO_UPPER}

ch_upper(ch) == IF ch \in DOMAIN LOWER_TO_UPPER THEN LOWER_TO_UPPER[ch] ELSE ch

ch_lower(ch) ==
    IF ch \in UPPERS THEN CHOOSE c \in DOMAIN LOWER_TO_UPPER : LOWER_TO_UPPER[c] = ch
    ELSE ch

(* str.isalpha: cased Latin letters and the Tamil letters (category Lo);   *)
(* vowel signs, virama, anusvara, punctuation and whitespace are not.      *)
isalpha(ch) ==
    \/ ch \in DOMAIN LOWER_TO_UPPER
    \/ ch \in UPPERS
    \/ ch \in DOMAIN TAMIL_INDEPENDENT_VOWELS
    \/ ch \in DOMAIN build_consonant_map(TRUE)
    \/ ch = TAMIL_AAYTHAM

isspace(ch) == ch \in {" ", "\n", "\t"}

str_upper(s) == [i \in 1..Len(s) |-> ch_upper(s[i])]
str_lower(s) == [i \in 1..Len(s) |-> ch_lower(s[i])]

(* str.capitalize: first character upper-cased, all the others lower-cased *)
capitalize(s) ==
    IF s = <<>> THEN <<>> ELSE <<ch_upper(s[1])>> \o str_lower(Tail(s))

(* str.strip() *)
RECURSIVE lstrip(_)
lstrip(s) == IF s # <<>> /\ isspace(Head(s)) THEN lstrip(Tail(s)) ELSE s

RECURSIVE rstrip(_)
rstrip(s) ==
    IF s # <<>> /\ isspace(s[Len(s)]) THEN rstrip(SubSeq(s, 1, Len(s) - 1)) ELSE s

strip(s) == rstrip(lstrip(s))

(* str.replace(old, new): leftmost non-overlapping occurrences; an empty   *)
(* `old` matches before every character and at the end.                    *)
RECURSIVE replace(_, _, _)
replace(s, old, new) ==
    IF old = <<>>
    THEN IF s = <<>> THEN new ELSE new \o <<Head(s)>> \o replace(Tail(s), old, new)
    ELSE IF Len(s) < Len(old) THEN s
    ELSE IF SubSeq(s, 1, Len(old)) = old
    THEN new \o replace(SubSeq(s, Len(old) + 1, Len(s)), old, new)
    ELSE <<Head(s)>> \o replace(Tail(s), old, new)

----------------------------------------------------------------------------
(* Utility functions *)

ROMAN_MAPPINGS == <<
    << <<"a", "a">>, <<"a_mac">> >>, << <<"i", "i">>, <<"i_mac">> >>,
    << <<"u", "u">>, <<"u_mac">> >>, << <<"e", "e">>, <<"e_mac">> >>,
    << <<"o", "o">>, <<"o_mac">> >>, << <<"z", "h">>, <<"l_ul">> >>,
    << <<"n", "g">>, <<"n_dotabove">> >>, << <<"n", ".">>, <<"n_dot">> >>,
    << <<"t", ".">>, <<"t_dot">> >>, << <<"l", ".">>, <<"l_dot">> >>,
    << <<"r", ".">>, <<"r_dot">> >>, << <<"m", ".">>, <<"m_dot">> >>,
    << <<"s", "h">>, <<"s_acute">> >>, << <<"c", "h">>, <<"c", "h">> >> >>

replace_preserve_case(s, src, tgt) ==
    LET out == replace(s, src, tgt) IN
    IF src # <<>> /\ isalpha(src[1])
    THEN replace(replace(out, capitalize(src), capitalize(tgt)),
                 str_upper(src),
                 [i \in 1..Len(tgt) |-> IF isalpha(tgt[i]) THEN ch_upper(tgt[i]) ELSE tgt[i]])
    ELSE out

(* sorted(seq, key=...): a stable sort, ascending in the key, of a sequence *)
(* of records [key, val].                                                  *)
RECURSIVE insert_sorted(_, _)
insert_sorted(sorted, x) ==
    IF sorted = <<>> THEN <<x>>
    ELSE IF sorted[Len(sorted)].key <= x.key THEN Append(sorted, x)
    ELSE Append(insert_sorted(SubSeq(sorted, 1, Len(sorted) - 1), x), sorted[Len(sorted)])

RECURSIVE sorted_by_key(_)
sorted_by_key(seq) ==
    IF seq = <<>> THEN <<>>
    ELSE insert_sorted(sorted_by_key(SubSeq(seq, 1, Len(seq) - 1)), seq[Len(seq)])

(* Line 66: the built-in rules in the order the loop visits them. *)
roman_order ==
    LET keyed == [i \in 1..Len(ROMAN_MAPPINGS) |->
                    [key |-> 0 - Len(ROMAN_MAPPINGS[i][1]), val |-> ROMAN_MAPPINGS[i]]]
        srt == sorted_by_key(keyed)
    IN  [i \in 1..Len(srt) |-> srt[i].val]

(* The for loop of lines 66-67 from the k-th rule on.  Python assigns out  *)
(* before the next iteration starts: the Len test makes the new value be   *)
(* computed here, not deferred into the rest of the loop.                  *)
RECURSIVE roman_loop(_, _, _)
roman_loop(out, rules, k) ==
    IF k > Len(rules) THEN out
    ELSE LET nxt == replace_preserve_case(out, rules[k][1], rules[k][2])
         IN  IF Len(nxt) >= 0 THEN roman_loop(nxt, rules, k + 1) ELSE nxt

apply_roman_mappings(text) == roman_loop(text, roman_order, 1)

----------------------------------------------------------------------------
(* Python values as json.load returns them.  One record shape for all:     *)
(* k the type, s the characters of a str (the digits of a number), items   *)
(* the elements of a list (the keys of a dict, which is what iterating a   *)
(* dict yields).                                                           *)

JNull == [k |-> "null", s |-> <<>>, items |-> <<>>]
JNum(digits) == [k |-> "num", s |-> digits, items |-> <<>>]
JStr(chars) == [k |-> "str", s |-> chars, items |-> <<>>]
JList(elems) == [k |-> "list", s |-> <<>>, items |-> elems]
JDict(keys) == [k |-> "dict", s |-> <<>>, items |-> keys]

(* A (src, tgt) pair of strings, as add_map builds it and json stores it. *)
Pair(src, tgt) == JList(<<JStr(src), JStr(tgt)>>)

(* bool(v) *)
truthy(v) ==
    CASE v.k = "null" -> FALSE
      [] v.k = "num" -> v.s # <<"0">>
      [] v.k = "str" -> v.s # <<>>
      [] OTHER -> v.items # <<>>

(* iter(v): the elements, or a TypeError *)
iterable(v) == v.k \in {"str", "list", "dict"}
elements(v) ==
    IF v.k = "str" THEN [i \in 1..Len(v.s) |-> JStr(<<v.s[i]>>)] ELSE v.items

(* key=lambda x: -len(x[0]) evaluates without an exception *)
key_ok(x) ==
    /\ x.k \in {"str", "list"}
    /\ elements(x) # <<>>
    /\ elements(x)[1].k \in {"str", "list", "dict"}

sort_key(x) ==
    LET first == elements(x)[1]
    IN  0 - (IF first.k = "str" THEN Len(first.s) ELSE Len(first.items))

(* `for s, t in ...` unpacks x, and out.replace(s, t) takes two str *)
unpack_ok(x) == iterable(x) /\ Len(elements(x)) = 2
rule_ok(x) ==
    /\ unpack_ok(x)
    /\ elements(x)[1].k = "str"
    /\ elements(x)[2].k = "str"

(* Line 111: sorted(rules, key=lambda x: -len(x[0])) *)
rules_unsorted(rules) == elements(rules)

rules_sorted(rules) ==
    LET el == elements(rules)
        keyed == [i \in 1..Len(el) |-> [key |-> sort_key(el[i]), val |-> el[i]]]
        srt == sorted_by_key(keyed)
    IN  [i \in 1..Len(srt) |-> srt[i].val]

(* Line 112: one user rule applied to the accumulated text *)
custom_replace_preserving_case(out, s, t) == replace_preserve_case(out, s, t)

custom_replace(out, s, t) == replace(out, s, t)

(* The for loop of lines 111-112 from the k-th rule on (out assigned       *)
(* before the next iteration, as in roman_loop).                           *)
RECURSIVE custom_loop(_, _, _)
custom_loop(out, rules, k) ==
    IF k > Len(rules) THEN out
    ELSE LET nxt == custom_replace(out, elements(rules[k])[1].s, elements(rules[k])[2].s)
         IN  IF Len(nxt) >= 0 THEN custom_loop(nxt, rules, k + 1) ELSE nxt

(* apply_custom_mappings(text, rules): the text returned, or raised = TRUE *)
(* when sorted() or the loop raises (TypeError, IndexError, KeyError,      *)
(* ValueError); `out` is local, so nothing of a partial result survives.   *)
apply_custom_mappings(text, rules) ==
    IF ~iterable(rules)
       \/ \E i \in 1..Len(elements(rules)) :
              ~key_ok(elements(rules)[i]) \/ ~rule_ok(elements(rules)[i])
    THEN [raised |-> TRUE, val |-> <<>>]
    ELSE [raised |-> FALSE, val |-> custom_loop(text, rules_sorted(rules), 1)]

----------------------------------------------------------------------------
(* Bounds of the inputs *)

MaxLen == 3         \* codepoints in a text given to tamil_to_diacritic_roman
MaxText == 3        \* characters in a text given to the substitution functions
MaxRules == 2       \* rules in a rule list
MaxInput == 2       \* characters typed into the input box
MaxDialogs == 2     \* editor windows open at once

SeqsUpTo(S, n) == UNION {[1..m -> S] : m \in 0..n}

(* Codepoints that are neither a consonant nor a vowel sign nor the virama: *)
(* unclassified ones, and one or two of every other class.                  *)
OtherCodepoints ==
    {" ", "x", "7", "V_a", "V_ai", TAMIL_ANUSVARA, TAMIL_AAYTHAM, "DANDA", "ZWNJ"}

Marks == DOMAIN TAMIL_VOWEL_SIGNS \cup {TAMIL_VIRAMA}

(* Characters and rules given to the substitution functions. *)
SubChars == {"a", "A", "b"}

RuleChoices == {
    Pair(<<"a">>, <<"b">>),
    Pair(<<"a", "b">>, <<"a">>),
    Pair(<<"a", "b">>, <<"b", "B">>),
    Pair(<<"a", "a">>, <<"b">>),
    Pair(<<"b">>, <<>>),
    Pair(<<"A">>, <<"a", "b">>) }

----------------------------------------------------------------------------
(* The app's variables while a pure function is called on its own *)

NoFile == [exists |-> FALSE, readable |-> FALSE, parses |-> FALSE, value |-> JNull]
NoDialog == [open |-> FALSE, rows |-> <<>>]
NoLog == [line |-> "none", n |-> 0]
NoArgs == [text |-> <<>>, rules |-> JList(<<>>), sanskrit |-> TRUE]
NoRet == [fn |-> "none", raised |-> FALSE, val |-> <<>>]

AppIdle ==
    /\ input_box = <<>> /\ output_box = <<>> /\ status = "Ready"
    /\ input_mode = "Tamil" /\ use_sanskrit = TRUE /\ debug_mode = FALSE
    /\ custom_rules = JList(<<>>) /\ mappings_file = NoFile
    /\ dialogs = [d \in 1..MaxDialogs |-> NoDialog]
    /\ errorbox = "none" /\ log = NoLog /\ callback_exc = FALSE

app_vars == <<input_box, output_box, status, input_mode, use_sanskrit, debug_mode,
              custom_rules, mappings_file, dialogs, errorbox, log, callback_exc>>

----------------------------------------------------------------------------
(* tamil_to_diacritic_roman called on bounded texts: every consonant of    *)
(* the map, every vowel sign or the virama, and one other codepoint, in    *)
(* every arrangement of up to MaxLen codepoints.                           *)

InitCompose ==
    /\ pc = "args" /\ ret = NoRet /\ AppIdle
    /\ \E c \in DOMAIN build_consonant_map(TRUE), m \in Marks, o \in OtherCodepoints,
          shape \in SeqsUpTo(1..3, MaxLen), f \in BOOLEAN :
          args = [text |-> [i \in 1..Len(shape) |-> <<c, m, o>>[shape[i]]],
                  rules |-> JList(<<>>), sanskrit |-> f]

CallCompose ==
    /\ pc = "args"
    /\ pc' = "done"
    /\ ret' = [fn |-> "tamil_to_diacritic_roman", raised |-> FALSE,
               val |-> tamil_to_diacritic_roman(args.text, args.sanskrit)]
    /\ UNCHANGED <<args, app_vars>>

NextCompose == CallCompose

SpecCompose == InitCompose /\ [][NextCompose]_vars

----------------------------------------------------------------------------
(* The substitution functions called on bounded texts and rule lists *)

InitSub ==
    /\ pc = "args" /\ ret = NoRet /\ AppIdle
    /\ \E t \in SeqsUpTo(SubChars, MaxText), rs \in SeqsUpTo(RuleChoices, MaxRules) :
          args = [text |-> t, rules |-> JList(rs), sanskrit |-> TRUE]

CallApplyCustom ==
    /\ pc = "args"
    /\ pc' = "done"
    /\ LET r == apply_custom_mappings(args.text, args.rules)
       IN  ret' = [fn |-> "apply_custom_mappings", raised |-> r.raised, val |-> r.val]
    /\ UNCHANGED <<args, app_vars>>

CallApplyRoman ==
    /\ pc = "args"
    /\ pc' = "done"
    /\ ret' = [fn |-> "apply_roman_mappings", raised |-> FALSE,
               val |-> apply_roman_mappings(args.text)]
    /\ UNCHANGED <<args, app_vars>>

CallReplacePreserveCase ==
    /\ pc = "args"
    /\ Len(args.rules.items) = 1
    /\ pc' = "done"
    /\ ret' = [fn |-> "replace_preserve_case", raised |-> FALSE,
               val |-> replace_preserve_case(args.text,
                           args.rules.items[1].items[1].s,
                           args.rules.items[1].items[2].s)]
    /\ UNCHANGED <<args, app_vars>>

NextSub == CallApplyCustom \/ CallApplyRoman \/ CallReplacePreserveCase

SpecSub == InitSub /\ [][NextSub]_vars

----------------------------------------------------------------------------
(* TamilDiacriticApp *)

(* _load_mappings: what __init__ leaves in custom_rules for a state of     *)
(* mappings.json.  A missing file leaves the [] of line 121; open() or     *)
(* json.load raising sets []; otherwise whatever json.load returned.       *)
load_mappings(file) ==
    IF file.exists /\ file.readable /\ file.parses THEN file.value ELSE JList(<<>>)

(* States of mappings.json at start-up: absent, unreadable, not JSON, and  *)
(* JSON of every top-level type, well-formed rule lists among them.        *)
JsonFile(v) == [exists |-> TRUE, readable |-> TRUE, parses |-> TRUE, value |-> v]

WellFormedFiles ==
    { NoFile,
      JsonFile(JList(<<>>)),
      JsonFile(JList(<<Pair(<<"a">>, <<"b">>)>>)) }

MalformedFiles ==
    { [exists |-> TRUE, readable |-> FALSE, parses |-> FALSE, value |-> JNull],
      [exists |-> TRUE, readable |-> TRUE, parses |-> FALSE, value |-> JNull],
      JsonFile(JNull),
      JsonFile(JNum(<<"0">>)),
      JsonFile(JNum(<<"5">>)),
      JsonFile(JStr(<<"a", "b">>)),
      JsonFile(JDict(<<JStr(<<"a", "b">>)>>)),
      JsonFile(JList(<<JNum(<<"1">>)>>)),
      JsonFile(JList(<<JList(<<JStr(<<"a">>)>>)>>)),
      JsonFile(JList(<<JList(<<JStr(<<"a">>), JNum(<<"1">>)>>)>>)) }

(* Characters typed into the input box, and the strings askstring returns  *)
(* (OK on an empty entry returns the empty string).                        *)
InputChars == {"C_ssa", "a", " "}
SourceAnswers == {<<>>, <<"a">>}
TargetAnswers == {<<"b">>}

(* The state __init__ leaves for a given mappings.json *)
AppStarted(file) ==
    /\ pc = "ui" /\ args = NoArgs /\ ret = NoRet
    /\ output_box = <<>> /\ status = "Ready"
    /\ input_mode = "Tamil" /\ use_sanskrit = TRUE /\ debug_mode = FALSE
    /\ mappings_file = file
    /\ custom_rules = load_mappings(file)
    /\ dialogs = [d \in 1..MaxDialogs |-> NoDialog]
    /\ errorbox = "none" /\ log = NoLog /\ callback_exc = FALSE

(* The user types a character at the end of the input box. *)
type_char(c) ==
    /\ pc = "ui"
    /\ Len(input_box) < MaxInput
    /\ input_box' = Append(input_box, c)
    /\ UNCHANGED <<pc, args, ret, output_box, status, input_mode, use_sanskrit,
                   debug_mode, custom_rules, mappings_file, dialogs, errorbox, log,
                   callback_exc>>

(* Line 185, the Clear button: input_box.delete('1.0', 'end') *)
clear_input ==
    /\ pc = "ui"
    /\ input_box' = <<>>
    /\ UNCHANGED <<pc, args, ret, output_box, status, input_mode, use_sanskrit,
                   debug_mode, custom_rules, mappings_file, dialogs, errorbox, log,
                   callback_exc>>

SetInputMode(m) ==
    /\ pc = "ui"
    /\ input_mode # m
    /\ input_mode' = m
    /\ UNCHANGED <<pc, args, ret, input_box, output_box, status, use_sanskrit,
                   debug_mode, custom_rules, mappings_file, dialogs, errorbox, log,
                   callback_exc>>

ToggleSanskrit ==
    /\ pc = "ui"
    /\ use_sanskrit' = ~use_sanskrit
    /\ UNCHANGED <<pc, args, ret, input_box, output_box, status, input_mode,
                   debug_mode, custom_rules, mappings_file, dialogs, errorbox, log,
                   callback_exc>>

ToggleDebug ==
    /\ pc = "ui"
    /\ debug_mode' = ~debug_mode
    /\ UNCHANGED <<pc, args, ret, input_box, output_box, status, input_mode,
                   use_sanskrit, custom_rules, mappings_file, dialogs, errorbox, log,
                   callback_exc>>

(* Lines 218-223: the value of `converted`, or raised = TRUE *)
convert(src, mode, sanskrit, rules) ==
    LET first == IF mode = "Roman" THEN apply_roman_mappings(src)
                 ELSE tamil_to_diacritic_roman(src, sanskrit)
    IN  IF truthy(rules) THEN apply_custom_mappings(first, rules)
        ELSE [raised |-> FALSE, val |-> first]

convert_now ==
    /\ pc = "ui"
    /\ LET src == strip(input_box \o <<"\n">>) IN
       IF src = <<>>
       THEN /\ status' = "No input"       \* lines 214-216: nothing else is touched
            /\ UNCHANGED <<output_box, errorbox, log>>
       ELSE LET r == convert(src, input_mode, use_sanskrit, custom_rules) IN
            IF r.raised
            THEN /\ log' = [line |-> "Conversion error", n |-> 0]
                 /\ errorbox' = "Error"
                 /\ UNCHANGED <<output_box, status>>
            ELSE /\ output_box' = r.val
                 /\ status' = "Conversion finished"
                 /\ log' = IF debug_mode
                           THEN [line |-> "Converted text length", n |-> Len(r.val)]
                           ELSE log
                 /\ UNCHANGED errorbox
    /\ UNCHANGED <<pc, args, ret, input_box, input_mode, use_sanskrit, debug_mode,
                   custom_rules, mappings_file, dialogs, callback_exc>>

(* The custom-mappings editor.  Its handlers are modelled for custom_rules *)
(* being a list of pairs, which EditorRulesArePairs shows to hold in every *)
(* state of SpecEditor.  A row of the Treeview holds the (s, t) it was     *)
(* inserted or last set with.  The selection is the user's, made before    *)
(* the click: sel is the 1-based position of the selected row; with no row *)
(* selected, or with askstring cancelled, a handler returns and nothing    *)
(* changes.                                                                *)
open_mappings_editor(d) ==
    /\ pc = "ui"
    /\ ~dialogs[d].open
    /\ dialogs' = [dialogs EXCEPT ![d] = [open |-> TRUE, rows |-> custom_rules.items]]
    /\ UNCHANGED <<pc, args, ret, input_box, output_box, status, input_mode,
                   use_sanskrit, debug_mode, custom_rules, mappings_file, errorbox, log,
                   callback_exc>>

add_map(d, s, t) ==
    /\ pc = "ui"
    /\ dialogs[d].open
    /\ Len(custom_rules.items) < MaxRules
    /\ Len(dialogs[d].rows) < MaxRules
    /\ custom_rules' = JList(Append(custom_rules.items, Pair(s, t)))
    /\ dialogs' = [dialogs EXCEPT ![d].rows = Append(@, Pair(s, t))]
    /\ UNCHANGED <<pc, args, ret, input_box, output_box, status, input_mode,
                   use_sanskrit, debug_mode, mappings_file, errorbox, log, callback_exc>>

edit_map(d, sel, ns, nt) ==
    /\ pc = "ui"
    /\ dialogs[d].open
    /\ sel \in 1..Len(dialogs[d].rows)
    /\ IF sel <= Len(custom_rules.items)
       THEN /\ custom_rules' = JList([custom_rules.items EXCEPT ![sel] = Pair(ns, nt)])
            /\ dialogs' = [dialogs EXCEPT ![d].rows[sel] = Pair(ns, nt)]
            /\ UNCHANGED callback_exc
       ELSE /\ callback_exc' = TRUE       \* IndexError at line 290
            /\ UNCHANGED <<custom_rules, dialogs>>
    /\ UNCHANGED <<pc, args, ret, input_box, output_box, status, input_mode,
                   use_sanskrit, debug_mode, mappings_file, errorbox, log>>

Without(seq, k) == SubSeq(seq, 1, k - 1) \o SubSeq(seq, k + 1, Len(seq))

del_map(d, sel) ==
    /\ pc = "ui"
    /\ dialogs[d].open
    /\ sel \in 1..Len(dialogs[d].rows)
    /\ IF sel <= Len(custom_rules.items)
       THEN /\ custom_rules' = JList(Without(custom_rules.items, sel))
            /\ dialogs' = [dialogs EXCEPT ![d].rows = Without(@, sel)]
            /\ UNCHANGED callback_exc
       ELSE /\ callback_exc' = TRUE       \* IndexError at line 296
            /\ UNCHANGED <<custom_rules, dialogs>>
    /\ UNCHANGED <<pc, args, ret, input_box, output_box, status, input_mode,
                   use_sanskrit, debug_mode, mappings_file, errorbox, log>>

(* _save_mappings then dlg.destroy(): the file is written, or open() fails *)
(* and the error is shown; the dialog closes either way.                   *)
save_and_close(d, written) ==
    /\ pc = "ui"
    /\ dialogs[d].open
    /\ IF written
       THEN mappings_file' = JsonFile(custom_rules) /\ UNCHANGED errorbox
       ELSE errorbox' = "Save error" /\ UNCHANGED mappings_file
    /\ dialogs' = [dialogs EXCEPT ![d] = NoDialog]
    /\ UNCHANGED <<pc, args, ret, input_box, output_box, status, input_mode,
                   use_sanskrit, debug_mode, custom_rules, log, callback_exc>>

(* The window manager's close button destroys the Toplevel without saving. *)
close_window(d) ==
    /\ pc = "ui"
    /\ dialogs[d].open
    /\ dialogs' = [dialogs EXCEPT ![d] = NoDialog]
    /\ UNCHANGED <<pc, args, ret, input_box, output_box, status, input_mode,
                   use_sanskrit, debug_mode, custom_rules, mappings_file, errorbox, log,
                   callback_exc>>

----------------------------------------------------------------------------
(* Conversion: the app started on any mappings.json, the user typing into  *)
(* the input box, clearing it, switching modes and converting.             *)

InitConvert ==
    /\ \E file \in WellFormedFiles \cup MalformedFiles : AppStarted(file)
    /\ input_box = <<>>

NextConvert ==
    \/ \E c \in InputChars : type_char(c)
    \/ clear_input
    \/ \E m \in {"Tamil", "Roman"} : SetInputMode(m)
    \/ ToggleSanskrit
    \/ ToggleDebug
    \/ convert_now

SpecConvert == InitConvert /\ [][NextConvert]_vars

(* The editor: the app started on an absent or well-formed mappings.json,  *)
(* the user opening editor windows, adding, editing, deleting, saving and  *)
(* converting a fixed input.                                               *)

InitEditor ==
    /\ \E file \in WellFormedFiles : AppStarted(file)
    /\ input_box = <<"a">>

NextEditor ==
    \/ \E d \in 1..MaxDialogs : open_mappings_editor(d)
    \/ \E d \in 1..MaxDialogs, s \in SourceAnswers, t \in TargetAnswers : add_map(d, s, t)
    \/ \E d \in 1..MaxDialogs, sel \in 1..MaxRules, s \in SourceAnswers, t \in TargetAnswers :
           edit_map(d, sel, s, t)
    \/ \E d \in 1..MaxDialogs, sel \in 1..MaxRules : del_map(d, sel)
    \/ \E d \in 1..MaxDialogs, written \in BOOLEAN : save_and_close(d, written)
    \/ \E d \in 1..MaxDialogs : close_window(d)
    \/ convert_now

SpecEditor == InitEditor /\ [][NextEditor]_vars

----------------------------------------------------------------------------
(* Properties of tamil_to_diacritic_roman, under SpecCompose *)

ComposeDone == pc = "done" /\ ret.fn = "tamil_to_diacritic_roman"

Roman(t) == tamil_to_diacritic_roman(t, args.sanskrit)

(* C1: for every consonant C of the per-call map with romanization B, at   *)
(* any position of the text and in both submodes: C followed by the virama *)
(* yields B and consumes both codepoints, C followed by a vowel sign with  *)
(* romanization V yields B + V and consumes both, and C followed by        *)
(* anything else, or by nothing, yields B + "a" and consumes only C.  The  *)
(* text before C and the text after what C consumed are romanized on their *)
(* own.                                                                    *)
C1_ConsonantComposition ==
    ComposeDone =>
        LET text == args.text
            cmap == build_consonant_map(args.sanskrit)
        IN  \A i \in 1..Len(text) :
                text[i] \in DOMAIN cmap =>
                    LET B == cmap[text[i]]
                        pre == SubSeq(text, 1, i - 1)
                        after1 == SubSeq(text, i + 1, Len(text))
                        after2 == SubSeq(text, i + 2, Len(text))
                    IN  IF i < Len(text) /\ text[i + 1] = TAMIL_VIRAMA
                        THEN ret.val = Roman(pre) \o B \o Roman(after2)
                        ELSE IF i < Len(text) /\ text[i + 1] \in DOMAIN TAMIL_VOWEL_SIGNS
                        THEN ret.val = Roman(pre) \o B \o TAMIL_VOWEL_SIGNS[text[i + 1]]
                                           \o Roman(after2)
                        ELSE ret.val = Roman(pre) \o B \o <<"a">> \o Roman(after1)

(* C1 witness: a consonant in the middle of a text, followed by a vowel sign *)
C1_Witness ==
    /\ ComposeDone
    /\ args.text = <<" ", "C_nnna", "S_ai">>
    /\ ret.val = <<" ", "n_ul", "a", "i">>

(* C6 as stated: every consonant that build_consonant_map sets (ja, ssa,   *)
(* sa, ha, sha) is romanized differently in the two submodes, and every    *)
(* consonant of the core table the same.                                   *)
C6_AllGranthaKeysDiffer ==
    (ComposeDone /\ Len(args.text) = 1) =>
        /\ args.text[1] \in GRANTHA_KEYS =>
               ret.val # tamil_to_diacritic_roman(args.text, ~args.sanskrit)
        /\ args.text[1] \in DOMAIN TAMIL_CONSONANTS_CORE =>
               ret.val = tamil_to_diacritic_roman(args.text, ~args.sanskrit)

(* C6 amended: of the consonants of the per-call map, exactly ssa and sha  *)
(* are romanized differently in the two submodes; ja, sa and ha, which     *)
(* build_consonant_map also sets, and every consonant of the core table    *)
(* yield the same output in both.                                          *)
C6_OnlySsaAndShaDiffer ==
    (ComposeDone /\ Len(args.text) = 1
                 /\ args.text[1] \in DOMAIN build_consonant_map(args.sanskrit)) =>
        (ret.val # tamil_to_diacritic_roman(args.text, ~args.sanskrit)
            <=> args.text[1] \in {"C_ssa", "C_sha"})

(* C6 witness: ssa in the standard submode gives "sha" *)
C6_Witness ==
    /\ ComposeDone
    /\ args.text = <<"C_ssa">> /\ ~args.sanskrit
    /\ ret.val = <<"s", "h", "a">>

(* C8: every codepoint that is not in PUNCT_MAP, is not the anusvara or    *)
(* aytham, is not an independent vowel or a consonant of the map, and is   *)
(* not the virama or vowel sign directly after a consonant, is emitted     *)
(* unchanged at its position; so a text of whitespace and unclassified     *)
(* codepoints comes back as it is, and an orphaned virama or vowel sign    *)
(* appears literally.                                                      *)
C8_Passthrough ==
    ComposeDone =>
        LET text == args.text
            cmap == build_consonant_map(args.sanskrit)
            Classified(ch) ==
                \/ ch \in DOMAIN PUNCT_MAP
                \/ ch \in {TAMIL_ANUSVARA, TAMIL_AAYTHAM}
                \/ ch \in DOMAIN TAMIL_INDEPENDENT_VOWELS
                \/ ch \in DOMAIN cmap
            Consumed(i) == i > 1 /\ text[i - 1] \in DOMAIN cmap /\ text[i] \in Marks
        IN  /\ \A i \in 1..Len(text) :
                   (~Classified(text[i]) /\ ~Consumed(i)) =>
                       ret.val = Roman(SubSeq(text, 1, i - 1)) \o <<text[i]>>
                                     \o Roman(SubSeq(text, i + 1, Len(text)))
            /\ (\A i \in 1..Len(text) : ~Classified(text[i]) /\ text[i] \notin Marks)
                   => ret.val = text
            /\ (\A i \in 1..Len(text) : ~Classified(text[i]) /\ ~Consumed(i))
                   => ret.val = text

(* C8 witness: orphaned vowel signs around a Latin letter come back as is *)
C8_Witness ==
    /\ ComposeDone
    /\ args.text = <<"S_aa", "x", "S_aa">>
    /\ ret.val = args.text

----------------------------------------------------------------------------
(* Properties of the substitution functions, under SpecSub *)

CustomDone == pc = "done" /\ ret.fn = "apply_custom_mappings" /\ ~ret.raised
CaseDone == pc = "done" /\ ret.fn = "replace_preserve_case"

RuleSrc(k) == args.rules.items[k].items[1].s
RuleTgt(k) == args.rules.items[k].items[2].s

Occurs(s, p) == \E i \in 1..(Len(s) - Len(p) + 1) : SubSeq(s, i, i + Len(p) - 1) = p

(* P with its first letter capitalized and the rest unchanged *)
FirstUpper(s) == IF s = <<>> THEN <<>> ELSE <<ch_upper(s[1])>> \o Tail(s)
(* R with every alphabetic character upper-cased *)
AlphaUpper(s) == [i \in 1..Len(s) |-> IF isalpha(s[i]) THEN ch_upper(s[i]) ELSE s[i]]

(* C2 as stated, on a text that is one occurrence of the pattern: for a    *)
(* rule (P, R) whose P starts with a letter, replace_preserve_case turns P *)
(* into R, P with its first letter capitalized into R with its first       *)
(* letter capitalized, and P fully upper-cased into R with every letter    *)
(* upper-cased; a text holding none of the three forms is left as it is.   *)
C2_CasePreserved ==
    (CaseDone /\ isalpha(RuleSrc(1)[1])) =>
        LET P == RuleSrc(1)
            R == RuleTgt(1)
            text == args.text
            Answers == (IF text = P THEN {R} ELSE {})
                       \cup (IF text = FirstUpper(P) THEN {FirstUpper(R)} ELSE {})
                       \cup (IF text = str_upper(P) THEN {AlphaUpper(R)} ELSE {})
        IN  /\ Answers # {} => ret.val \in Answers
            /\ (~Occurs(text, P) /\ ~Occurs(text, FirstUpper(P))
                    /\ ~Occurs(text, str_upper(P))) => ret.val = text

(* C3 as stated: when two rules of a list have patterns of different       *)
(* lengths, the shorter a prefix of the longer, then wherever the longer   *)
(* pattern (and so the shorter) matches, the output holds exactly the      *)
(* longer rule's replacement there, between the outputs for the text       *)
(* before and the text after the match.                                    *)
C3_LongestWinsExclusively ==
    (CustomDone /\ Len(args.rules.items) = 2) =>
        \A L \in 1..2 :
            LET S == 3 - L
                text == args.text
                Sub(t) == apply_custom_mappings(t, args.rules).val
            IN  (/\ Len(RuleSrc(S)) < Len(RuleSrc(L))
                 /\ SubSeq(RuleSrc(L), 1, Len(RuleSrc(S))) = RuleSrc(S)) =>
                    \A i \in 1..Len(text) :
                        (/\ i + Len(RuleSrc(L)) - 1 <= Len(text)
                         /\ SubSeq(text, i, i + Len(RuleSrc(L)) - 1) = RuleSrc(L)) =>
                            ret.val = Sub(SubSeq(text, 1, i - 1)) \o RuleTgt(L)
                                \o Sub(SubSeq(text, i + Len(RuleSrc(L)), Len(text)))

(* C3 amended: the rules are applied one after another in descending       *)
(* pattern length, each as a global replace over the output of the one     *)
(* before.  For two rules with patterns of different lengths the output is *)
(* the shorter rule applied to the text in which the longer pattern has    *)
(* already been replaced; on a text that is the longer pattern the output  *)
(* is the longer rule's replacement whenever that replacement does not     *)
(* contain the shorter pattern.                                            *)
C3_LongerRuleAppliedFirst ==
    (CustomDone /\ Len(args.rules.items) = 2) =>
        \A L \in 1..2 :
            LET S == 3 - L IN
            Len(RuleSrc(S)) < Len(RuleSrc(L)) =>
                /\ ret.val = replace(replace(args.text, RuleSrc(L), RuleTgt(L)),
                                     RuleSrc(S), RuleTgt(S))
                /\ (args.text = RuleSrc(L) /\ ~Occurs(RuleTgt(L), RuleSrc(S)))
                       => ret.val = RuleTgt(L)

(* C3 witness: the shorter rule, listed first, runs second and rewrites    *)
(* the longer rule's replacement                                           *)
C3_Witness ==
    /\ CustomDone
    /\ args.rules = JList(<<Pair(<<"a">>, <<"b">>), Pair(<<"a", "b">>, <<"a">>)>>)
    /\ args.text = <<"a", "b">>
    /\ ret.val = <<"b">>

----------------------------------------------------------------------------
(* Properties of the app, under SpecConvert and SpecEditor *)

(* C5: a convert on empty input presents the empty string as output,       *)
(* whatever an earlier conversion left in the output box.  The status bar  *)
(* reads "No input" exactly from such a convert until the next successful  *)
(* one, and the output box changes only in a successful convert.           *)
C5_EmptyInputEmptyOutput ==
    (pc = "ui" /\ status = "No input") => output_box = <<>>

(* C7: whatever the state of mappings.json, the rules _load_mappings       *)
(* leaves never make a later convert raise or report an error.             *)
C7_LoadedRulesNeverBreakConvert ==
    pc = "ui" => errorbox # "Error"

(* In SpecEditor custom_rules stays a list of pairs of strings. *)
EditorRulesArePairs ==
    /\ custom_rules.k = "list"
    /\ \A i \in 1..Len(custom_rules.items) :
           \E s \in SourceAnswers \cup {<<"a">>}, t \in TargetAnswers :
               custom_rules.items[i] = Pair(s, t)

(* C9: after any sequence of add, edit and delete in the editor, every     *)
(* rule of custom_rules has a non-empty pattern.                           *)
C9_PatternsNonEmpty ==
    pc = "ui" =>
        \A i \in 1..Len(custom_rules.items) : custom_rules.items[i].items[1].s # <<>>

(* C10: the rows of every open editor window equal custom_rules, element   *)
(* for element, and no edit or delete indexes past the end of the list.    *)
C10_RowsEqualRules ==
    pc = "ui" =>
        /\ \A d \in 1..MaxDialogs :
               dialogs[d].open => dialogs[d].rows = custom_rules.items
        /\ ~callback_exc

====
